---- MODULE Spec2Model ----
(***************************************************************************)
(* tarsnap: fetch a remote .bash_history, aggregate and deduplicate the    *)
(* captured lines into summary.txt, or install a launchd task.             *)
(*                                                                         *)
(* Two programs of the repository are modelled:                            *)
(*   "main"      src/main.go            (flags label, cwd, show-full,      *)
(*                                       install, delay)                   *)
(*   "part_000"  src/unnamed/part_000   (flags ip, launchd, label, cwd,    *)
(*                                       show-full)                        *)
(* Files are byte sequences; a byte is a one-character string.  Lines are  *)
(* read with bufio.Scanner (split at LF, one trailing CR dropped) and      *)
(* written with fmt.Fprintln (line followed by LF).                        *)
(*                                                                         *)
(* Specifications:                                                         *)
(*   Spec      runs of one program, one after the other                    *)
(*   SpecDir   the walk and generateSummaryFile on directory fixtures      *)
(*   SpecPar   two instances on the fetch path, side by side               *)
(*   SpecKeep  Spec, with capture files deleted between the runs           *)
(***************************************************************************)
EXTENDS Integers, Sequences, FiniteSets, TLC

VARIABLES
  rev,             \* the program that is deployed: "main" or "part_000"
  pc,              \* position of the current run
  exitCode,        \* exit status of the last finished run (-1 while running)
  args,            \* command line of the current run
  clock,           \* wall clock, in seconds (time.Now)
  dir,             \* ./data/bash_history: file name -> bytes, or Absent
  dir0,            \* dir as it was when the current run started
  plists,          \* descriptor files: path -> rendered fields, or Absent
  ip,              \* the host IP of the current run
  localFile,       \* the capture file name of the current run
  aggregateLines,  \* dowork / main: all lines of all files, in walk order
  uniqueLineCount, \* dowork / main: getUniqueLineCount(aggregateLines)
  stdout,          \* lines printed by -show-full
  events,          \* external operations of the current run, in order
  loaded,          \* launchd: the Labels of the jobs it has loaded
  runs,            \* number of runs started
  fetched,         \* history: every capture content that scp ever wrote
  gens,            \* history: the last two generateSummaryFile calls
  inst,            \* instances of the program that run side by side
  copies           \* history: the capture files these instances wrote

vars == <<rev, pc, exitCode, args, clock, dir, dir0, plists, ip, localFile,
          aggregateLines, uniqueLineCount, stdout, events, loaded, runs,
          fetched, gens, inst, copies>>

-----------------------------------------------------------------------------
(* Bounds of the model *)

MaxRuns == 2
MaxClock == 1

-----------------------------------------------------------------------------
(* Bytes, lines and file contents *)

LF == "\n"
CR == "\r"
Absent == <<"absent">>

EchoHello == <<"e", "c", "h", "o", " ", "h", "e", "l", "l", "o">>
EchoHelloWorld == EchoHello \o <<" ", "w", "o", "r", "l", "d">>
LsLa == <<"l", "s", " ", "-", "l", "a">>
CdTmp == <<"c", "d", " ", "/", "t", "m", "p">>

\* a.txt and b.txt of the two-file fixture
FileA == LsLa \o <<LF>> \o CdTmp \o <<LF>> \o LsLa \o <<LF>>
FileB == CdTmp \o <<LF>> \o EchoHelloWorld \o <<LF>>
\* a history whose only line ends in carriage returns before the newline
FileCR == EchoHello \o <<CR, CR, CR, LF>>
\* a last line without a newline
FileNoNL == LsLa \o <<LF>> \o EchoHelloWorld

\* what ~/.bash_history of the remote host may hold when scp copies it
\* (FileNoNL is read by the walk of SpecDir)
RemoteHistories == {FileB, FileCR}

Range(s) == {s[i] : i \in 1..Len(s)}

\* bytes.IndexByte, 1-based; 0 when c does not occur
IndexByte(data, c) ==
  IF \E i \in 1..Len(data) : data[i] = c
  THEN CHOOSE i \in 1..Len(data) :
         data[i] = c /\ \A j \in 1..(i - 1) : data[j] # c
  ELSE 0

\* bufio.dropCR: one trailing carriage return is dropped
dropCR(data) ==
  IF Len(data) > 0 /\ data[Len(data)] = CR
  THEN SubSeq(data, 1, Len(data) - 1)
  ELSE data

\* the tokens of bufio.Scanner with bufio.ScanLines, to the end of the data
RECURSIVE ScanLines(_)
ScanLines(data) ==
  IF Len(data) = 0 THEN <<>>
  ELSE LET i == IndexByte(data, LF) IN
       IF i > 0
       THEN <<dropCR(SubSeq(data, 1, i - 1))>>
              \o ScanLines(SubSeq(data, i + 1, Len(data)))
       ELSE <<dropCR(data)>>

\* readLines: the lines of one file
readLines(content) == ScanLines(content)

\* fmt.Fprintln(summaryFile, line)
Fprintln(line) == line \o <<LF>>

\* getUniqueLineCount without the map: every line counts
getUniqueLineCountTotal(lines) == Len(lines)

\* getUniqueLineCount: the number of keys of the map built from lines
getUniqueLineCount(lines) == Cardinality(Range(lines))

\* the orders in which a range over a Go map may deliver its keys
RECURSIVE Orders(_)
Orders(S) ==
  IF S = {} THEN {<<>>}
  ELSE UNION {{<<x>> \o o : o \in Orders(S \ {x})} : x \in S}

-----------------------------------------------------------------------------
(* The capture directory ./data/bash_history *)

SummaryName == "summary.txt"

\* time.Now().Format("20060102_150405") of the model's clock
Format(t) == "20230101_00000" \o ToString(t)

\* the capture path without its timestamp: one name for every run
CaptureNameFixed(t) == "bash_history_" \o Format(0) \o ".txt"

\* fmt.Sprintf("%s/bash_history_%s.txt", localDir, ...), without the directory
CaptureName(t) == "bash_history_" \o Format(t) \o ".txt"

Times == 0..MaxClock
CaptureNames == {CaptureName(t) : t \in Times}

\* every file name of the directory, in the lexical order of filepath.Walk
RECURSIVE CaptureSeq(_)
CaptureSeq(t) ==
  IF t > MaxClock THEN <<>> ELSE <<CaptureName(t)>> \o CaptureSeq(t + 1)

WalkOrder == <<"a.txt", "b.txt">> \o CaptureSeq(0) \o <<SummaryName>>
Names == Range(WalkOrder)

EmptyDir == [n \in Names |-> Absent]

\* the regular files filepath.Walk visits, in order
WalkFiles(d) == SelectSeq(WalkOrder, LAMBDA n : d[n] # Absent)

\* the walk of dowork: aggregateLines = append(aggregateLines, lines...)
RECURSIVE AppendAll(_, _)
AppendAll(d, files) ==
  IF files = <<>> THEN <<>>
  ELSE readLines(d[Head(files)]) \o AppendAll(d, Tail(files))

Aggregate(d) == AppendAll(d, WalkFiles(d))

\* getUniqueBashLines: the keys of uniqueLines after the walk
getUniqueBashLines(d) ==
  UNION {Range(readLines(d[n])) : n \in {m \in Names : d[m] # Absent}}

MAX_LEN == 10

\* generateSummaryFile with the comparison turned around
RECURSIVE WriteSummaryShortOnly(_)
WriteSummaryShortOnly(uniqueLines) ==
  IF uniqueLines = <<>> THEN <<>>
  ELSE LET line == Head(uniqueLines) IN
       (IF Len(line) > MAX_LEN THEN <<>> ELSE Fprintln(line))
         \o WriteSummaryShortOnly(Tail(uniqueLines))

\* generateSummaryFile of src/main.go: what the loop writes for uniqueLines
RECURSIVE WriteSummary(_)
WriteSummary(uniqueLines) ==
  IF uniqueLines = <<>> THEN <<>>
  ELSE LET line == Head(uniqueLines) IN
       (IF Len(line) < MAX_LEN THEN <<>> ELSE Fprintln(line))
         \o WriteSummary(Tail(uniqueLines))

\* generateSummaryFile of part_000: every line is written
RECURSIVE WriteSummary000(_)
WriteSummary000(uniqueLines) ==
  IF uniqueLines = <<>> THEN <<>>
  ELSE Fprintln(Head(uniqueLines)) \o WriteSummary000(Tail(uniqueLines))

-----------------------------------------------------------------------------
(* The command line *)

\* strings the path functions take apart are token sequences: "/" and "."
\* are tokens of their own, an IP address is one token
ComTarsnap == <<"com", ".", "tarsnap">>
ComTest == <<"com", ".", "test">>
SlashLabel == <<"a", "/", "b">>

DefaultDelay == 600000

Cmd(given, ipv, labelv, delayv) ==
  [given |-> given, ip |-> ipv, label |-> labelv, delay |-> delayv]

\* the command lines a run may be started with; delays are in milliseconds
ArgPool ==
  { Cmd({}, "", ComTarsnap, DefaultDelay),
    Cmd({"ip"}, "10.0.0.5", ComTarsnap, DefaultDelay),
    Cmd({"show-full"}, "", ComTarsnap, DefaultDelay),
    Cmd({"install"}, "", ComTarsnap, DefaultDelay),
    Cmd({"install", "label", "delay"}, "", ComTest, 300000),
    Cmd({"install", "label", "delay"}, "", SlashLabel, 1500),
    Cmd({"install", "show-full"}, "", ComTarsnap, DefaultDelay),
    Cmd({"launchd"}, "", ComTarsnap, DefaultDelay),
    Cmd({"launchd", "ip", "label"}, "10.0.0.5", ComTest, DefaultDelay) }

\* the flags each program defines before flag.Parse()
Flags(r) ==
  IF r = "main"
  THEN {"label", "cwd", "show-full", "install", "delay"}
  ELSE {"ip", "launchd", "label", "cwd", "show-full"}

\* flag.Parse(): a flag that is not defined ends the process with status 2
ParseFails(r, a) == ~(a.given \subseteq Flags(r))

-----------------------------------------------------------------------------
(* The IP resolver *)

\* what `terraform output -json` may do: exit non-zero, print something that
\* is not JSON, or print JSON whose instance_public_ip.value is the value
TerraformOutputs ==
  { [exit |-> 1, json |-> FALSE, value |-> ""],
    [exit |-> 0, json |-> FALSE, value |-> ""] }
  \cup { [exit |-> 0, json |-> TRUE, value |-> v] :
           v \in {"10.0.0.5", "", "::1"} }

\* netaddr.ParseIP on the addresses of the model
ParseIP(s) ==
  CASE s = "10.0.0.5" -> "v4"
    [] s = "::1" -> "v6"
    [] OTHER -> "err"

isValidIPv4(s) == ParseIP(s) = "v4"

\* getip of src/main.go on one output of terraform: the IP, or "fatal"
getip(out) ==
  IF out.exit # 0 \/ ~out.json \/ ~isValidIPv4(out.value)
  THEN [fatal |-> TRUE, ip |-> ""]
  ELSE [fatal |-> FALSE, ip |-> out.value]

\* the IP resolution of part_000: the -ip flag, else terraform, not validated
resolve000(a, out) ==
  IF a.ip # "" THEN [fatal |-> FALSE, ip |-> a.ip, terraform |-> FALSE]
  ELSE IF out.exit # 0 \/ ~out.json
       THEN [fatal |-> TRUE, ip |-> "", terraform |-> TRUE]
       ELSE [fatal |-> FALSE, ip |-> out.value, terraform |-> TRUE]

-----------------------------------------------------------------------------
(* The scheduler installer *)

LaunchAgentsDir == <<"~", "/", "Library", "/", "LaunchAgents">>

\* the last index of token c in s, 0 when there is none
LastIndex(s, c) ==
  IF \E i \in 1..Len(s) : s[i] = c
  THEN CHOOSE i \in 1..Len(s) :
         s[i] = c /\ \A j \in (i + 1)..Len(s) : s[j] # c
  ELSE 0

\* filepath.Base, for a path that does not end in a separator
Base(path) == SubSeq(path, LastIndex(path, "/") + 1, Len(path))

\* filepath.Ext: from the last dot of the last element
Ext(path) ==
  LET b == Base(path) IN
  IF LastIndex(b, ".") = 0 THEN <<>> ELSE SubSeq(b, LastIndex(b, "."), Len(b))

\* strings.TrimSuffix
TrimSuffix(s, suffix) ==
  IF Len(suffix) <= Len(s)
     /\ SubSeq(s, Len(s) - Len(suffix) + 1, Len(s)) = suffix
  THEN SubSeq(s, 1, Len(s) - Len(suffix))
  ELSE s

\* strings.Contains
Contains(s, sub) ==
  \E i \in 1..(Len(s) + 1) :
    i + Len(sub) - 1 <= Len(s) /\ SubSeq(s, i, i + Len(sub) - 1) = sub

\* strconv.Itoa of a number that is not negative: its decimal digits
Digits == <<"0", "1", "2", "3", "4", "5", "6", "7", "8", "9">>
RECURSIVE Itoa(_)
Itoa(n) ==
  IF n < 10 THEN <<Digits[n + 1]>>
  ELSE Itoa(n \div 10) \o <<Digits[(n % 10) + 1]>>

\* int(config.Delay.Seconds()) of a delay in milliseconds
Seconds(delay) == delay \div 1000

Label(a) == IF "label" \in a.given THEN a.label ELSE ComTarsnap
Delay(a) == IF "delay" \in a.given THEN a.delay ELSE DefaultDelay

\* setup of src/main.go: launctlTask and the path of the descriptor
launctlTask(a, addr) == Label(a) \o <<".", addr>>

plistPath(a, addr) ==
  LaunchAgentsDir \o <<"/">> \o launctlTask(a, addr) \o <<".", "plist">>

\* PlistData with the interval the template of part_001 has in it
PlistDataFixedInterval(a, addr) ==
  [path |-> plistPath(a, addr),
   Label |-> TrimSuffix(Base(plistPath(a, addr)), Ext(plistPath(a, addr))),
   StartInterval |-> <<"6", "0", "0">>,
   RunAtLoad |-> FALSE]

\* setup of src/main.go: the data of the template
PlistData(a, addr) ==
  LET plist == plistPath(a, addr)
      baseName == Base(plist)
      baseNameWithoutExt == TrimSuffix(baseName, Ext(baseName))
  IN [path |-> plist,
      Label |-> baseNameWithoutExt,
      StartInterval |-> Itoa(Seconds(Delay(a))),
      RunAtLoad |-> FALSE]

\* the -launchd branch of part_000: filename, and the fields of its template
PlistData000(a, addr) ==
  LET filename == Label(a) \o <<".", addr, ".", "plist">>
  IN [path |-> filename,
      Label |-> SubSeq(filename, 1, Len(filename) - 2),
      StartInterval |-> <<"3", "6", "0", "0">>,
      RunAtLoad |-> TRUE]

\* os.Create(path) followed by tmpl.Execute(file, data)
WritePlist(files, data) == {f \in files : f.path # data.path} \cup {data}

-----------------------------------------------------------------------------
(* The runs of the program *)

NoArgs == Cmd({}, "", ComTarsnap, DefaultDelay)

\* the instances that run side by side, and one of them before it starts
Instances == {1, 2}
Idle == [pc |-> "idle", exitCode |-> 0, started |-> 0, now |-> 0, ip |-> "",
         localFile |-> ""]

Init ==
  /\ rev \in {"main", "part_000"}
  /\ pc = "idle"
  /\ exitCode = 0
  /\ args = NoArgs
  /\ clock = 0
  /\ dir = EmptyDir
  /\ dir0 = EmptyDir
  /\ plists = {}
  /\ ip = ""
  /\ localFile = ""
  /\ aggregateLines = <<>>
  /\ uniqueLineCount = 0
  /\ stdout = <<>>
  /\ events = <<>>
  /\ loaded = {}
  /\ runs = 0
  /\ fetched = {}
  /\ gens = <<>>
  /\ inst = [i \in Instances |-> Idle]
  /\ copies = <<>>

\* log.Fatalf, panic, os.Exit, or the return of main
Exit(code) == pc' = "exited" /\ exitCode' = code

\* main up to its first external operation: flag.Parse() and the dispatch
Main ==
  /\ pc \in {"idle", "exited"}
  /\ runs < MaxRuns
  /\ \E a \in ArgPool :
       /\ args' = a
       /\ IF ParseFails(rev, a)
          THEN Exit(2)
          ELSE /\ exitCode' = -1
               /\ pc' = IF rev = "main"
                        THEN IF "install" \notin a.given THEN "getip"
                             ELSE IF "show-full" \in a.given THEN "showfull"
                             ELSE "getip"
                        ELSE IF "show-full" \in a.given THEN "showfull"
                             ELSE "resolve"
  /\ runs' = runs + 1
  /\ dir0' = dir
  /\ ip' = ""
  /\ localFile' = ""
  /\ aggregateLines' = <<>>
  /\ uniqueLineCount' = 0
  /\ stdout' = <<>>
  /\ events' = <<>>
  /\ UNCHANGED <<rev, clock, dir, plists, loaded, fetched, gens, inst,
                 copies>>

\* --show-full: setup of src/main.go, main of part_000
ShowFull ==
  /\ pc = "showfull"
  /\ \/ \* the walk of getUniqueBashLines fails: log.Fatalf
        /\ Exit(1)
        /\ UNCHANGED <<stdout, events>>
     \/ \E uniqueLines \in Orders(getUniqueBashLines(dir)) :
          /\ stdout' = uniqueLines
          /\ events' = Append(events, "print")
          /\ Exit(0)
  /\ UNCHANGED <<rev, args, clock, dir, dir0, plists, ip, localFile,
                 aggregateLines, uniqueLineCount, loaded, runs, fetched, gens,
                 inst, copies>>

\* getip whose caller is always dowork: the fetch follows, -install or not
GetIPThenFetch ==
  /\ pc = "getip"
  /\ \E out \in TerraformOutputs :
       LET r == getip(out) IN
       /\ events' = Append(events, "terraform")
       /\ ip' = r.ip
       /\ IF r.fatal
          THEN Exit(1)
          ELSE pc' = "scp" /\ UNCHANGED exitCode
  /\ UNCHANGED <<rev, args, clock, dir, dir0, plists, localFile,
                 aggregateLines, uniqueLineCount, stdout, loaded, runs,
                 fetched, gens, inst, copies>>

\* getip of src/main.go, called by setup and by dowork
GetIP ==
  /\ pc = "getip"
  /\ \E out \in TerraformOutputs :
       LET r == getip(out) IN
       /\ events' = Append(events, "terraform")
       /\ ip' = r.ip
       /\ IF r.fatal
          THEN Exit(1)
          ELSE /\ pc' = IF "install" \in args.given THEN "plist" ELSE "scp"
               /\ UNCHANGED exitCode
  /\ UNCHANGED <<rev, args, clock, dir, dir0, plists, localFile,
                 aggregateLines, uniqueLineCount, stdout, loaded, runs,
                 fetched, gens, inst, copies>>

\* main of part_000: the -ip flag or terraform
ResolveIP000 ==
  /\ pc = "resolve"
  /\ \E out \in TerraformOutputs :
       LET r == resolve000(args, out) IN
       /\ events' = IF r.terraform THEN Append(events, "terraform") ELSE events
       /\ ip' = r.ip
       /\ IF r.fatal
          THEN Exit(1)
          ELSE /\ pc' = IF "launchd" \in args.given THEN "plist" ELSE "scp"
               /\ UNCHANGED exitCode
  /\ UNCHANGED <<rev, args, clock, dir, dir0, plists, localFile,
                 aggregateLines, uniqueLineCount, stdout, loaded, runs,
                 fetched, gens, inst, copies>>

\* os.Create of the descriptor and tmpl.Execute
CreatePlist ==
  /\ pc = "plist"
  /\ \/ \* os.Create fails: log.Fatalf
        /\ Exit(1)
        /\ UNCHANGED <<plists, events>>
     \/ /\ plists' = WritePlist(plists, IF rev = "main"
                                        THEN PlistData(args, ip)
                                        ELSE PlistData000(args, ip))
        /\ events' = Append(events, "plist")
        /\ IF rev = "main"
           THEN pc' = "load" /\ UNCHANGED exitCode
           ELSE Exit(0)
  /\ UNCHANGED <<rev, args, clock, dir, dir0, ip, localFile, aggregateLines,
                 uniqueLineCount, stdout, loaded, runs, fetched, gens, inst,
                 copies>>

\* launchctl load <plist>: it fails, it loads the job under the Label of the
\* descriptor, or it exits with 0 and loads nothing
loadLaunchdTarsnap ==
  /\ pc = "load"
  /\ events' = Append(events, "load")
  /\ \E result \in {"failed", "loaded", "nothing"} :
       /\ IF result = "failed"
          THEN Exit(1)
          ELSE pc' = "search" /\ UNCHANGED exitCode
       /\ loaded' = IF result = "loaded"
                    THEN loaded \cup {f.Label : f \in
                           {g \in plists : g.path = plistPath(args, ip)}}
                    ELSE loaded
  /\ UNCHANGED <<rev, args, clock, dir, dir0, plists, ip, localFile,
                 aggregateLines, uniqueLineCount, stdout, runs, fetched, gens,
                 inst, copies>>

\* searchLaunchdList: launchctl list, and the search for launctlTask in it
searchLaunchdList(before, next) ==
  /\ \/ \* launchctl list fails: log.Fatal
        /\ events' = events \o before \o <<"list_failed">>
        /\ Exit(1)
     \/ LET found == \E line \in loaded :
                       Contains(line, launctlTask(args, ip))
        IN /\ events' = events \o before
                          \o <<IF found THEN "list_found" ELSE "list_missing">>
           /\ IF next = "exited"
              THEN Exit(0)
              ELSE pc' = next /\ UNCHANGED exitCode
  /\ UNCHANGED <<rev, args, clock, dir, dir0, plists, ip, localFile,
                 aggregateLines, uniqueLineCount, stdout, loaded, runs,
                 fetched, gens, inst, copies>>

\* setup with the second check made only when the first found nothing
SetupSearchStopsWhenFound ==
  /\ pc = "search"
  /\ IF \E line \in loaded : Contains(line, launctlTask(args, ip))
     THEN searchLaunchdList(<<>>, "exited")
     ELSE searchLaunchdList(<<>>, "sleep")

\* setup: the first searchLaunchdList(launctlTask)
SetupSearch == pc = "search" /\ searchLaunchdList(<<>>, "sleep")

\* setup: time.Sleep(500 * time.Millisecond), the second searchLaunchdList
SetupSleepSearch ==
  pc = "sleep" /\ searchLaunchdList(<<"sleep_500ms">>, "exited")

\* dowork (main of part_000): the capture path, os.MkdirAll and scp
Scp ==
  /\ pc = "scp"
  /\ localFile' = CaptureName(clock)
  /\ \/ \* os.MkdirAll fails: log.Fatalf
        /\ Exit(1)
        /\ UNCHANGED <<dir, events, fetched>>
     \/ \* scp exits non-zero: log.Fatalf
        /\ events' = Append(events, "scp")
        /\ Exit(1)
        /\ UNCHANGED <<dir, fetched>>
     \/ \* scp copies the remote history; only an IPv4 host can be reached
        /\ isValidIPv4(ip)
        /\ \E h \in RemoteHistories :
             /\ dir' = [dir EXCEPT ![CaptureName(clock)] = h]
             /\ fetched' = fetched \cup {h}
        /\ events' = Append(events, "scp")
        /\ pc' = "walk"
        /\ UNCHANGED exitCode
  /\ UNCHANGED <<rev, args, clock, dir0, plists, ip, aggregateLines,
                 uniqueLineCount, stdout, loaded, runs, gens, inst, copies>>

\* dowork with the error of filepath.Walk ignored: the run goes on to
\* generateSummaryFile with what the walk had gathered
WalkDirGoesOn ==
  /\ pc = "walk"
  /\ \/ /\ pc' = "summary"
        /\ UNCHANGED <<aggregateLines, uniqueLineCount>>
     \/ /\ aggregateLines' = Aggregate(dir)
        /\ uniqueLineCount' = getUniqueLineCount(Aggregate(dir))
        /\ pc' = "summary"
  /\ UNCHANGED <<rev, exitCode, args, clock, dir, dir0, plists, ip, localFile,
                 stdout, events, loaded, runs, fetched, gens, inst, copies>>

\* dowork (main of part_000): the walk with readLines, getUniqueLineCount
WalkDir ==
  /\ pc = "walk"
  /\ \/ \* the walk or a readLines fails: log.Fatalf
        /\ Exit(1)
        /\ UNCHANGED <<aggregateLines, uniqueLineCount>>
     \/ /\ aggregateLines' = Aggregate(dir)
        /\ uniqueLineCount' = getUniqueLineCount(Aggregate(dir))
        /\ pc' = "summary"
        /\ UNCHANGED exitCode
  /\ UNCHANGED <<rev, args, clock, dir, dir0, plists, ip, localFile, stdout,
                 events, loaded, runs, fetched, gens, inst, copies>>

\* the files of the directory that are not summary.txt
Captures(d) == [n \in Names \ {SummaryName} |-> d[n]]

\* the last two calls
Remember(g, call) == IF Len(g) < 2 THEN Append(g, call) ELSE <<g[2], call>>

\* generateSummaryFile
generateSummaryFile ==
  /\ pc = "summary"
  /\ \/ \* getUniqueBashLines or os.Create fails: log.Fatalf
        /\ Exit(1)
        /\ UNCHANGED <<dir, events, gens>>
     \/ \* os.Create has truncated summary.txt, a later Fprintln fails
        \E uniqueLines \in Orders(getUniqueBashLines(dir)) :
          \E k \in 0..(Len(uniqueLines) - 1) :
            LET done == SubSeq(uniqueLines, 1, k) IN
            /\ dir' = [dir EXCEPT ![SummaryName] =
                         IF rev = "main" THEN WriteSummary(done)
                         ELSE WriteSummary000(done)]
            /\ events' = Append(events, "summary")
            /\ Exit(1)
            /\ UNCHANGED gens
     \/ \E uniqueLines \in Orders(getUniqueBashLines(dir)) :
          LET written == IF rev = "main"
                         THEN WriteSummary(uniqueLines)
                         ELSE WriteSummary000(uniqueLines)
          IN /\ dir' = [dir EXCEPT ![SummaryName] = written]
             /\ events' = Append(events, "summary")
             /\ gens' = Remember(gens, [captures |-> Captures(dir),
                                        summary |-> written])
             /\ Exit(0)
  /\ UNCHANGED <<rev, args, clock, dir0, plists, ip, localFile,
                 aggregateLines, uniqueLineCount, stdout, loaded, runs,
                 fetched, inst, copies>>

\* a second passes between two runs
Tick ==
  /\ pc \in {"idle", "exited"}
  /\ clock < MaxClock
  /\ clock' = clock + 1
  /\ UNCHANGED <<rev, pc, exitCode, args, dir, dir0, plists, ip, localFile,
                 aggregateLines, uniqueLineCount, stdout, events, loaded,
                 runs, fetched, gens, inst, copies>>

Next ==
  \/ Main
  \/ ShowFull
  \/ GetIP
  \/ ResolveIP000
  \/ CreatePlist
  \/ loadLaunchdTarsnap
  \/ SetupSearch
  \/ SetupSleepSearch
  \/ Scp
  \/ WalkDir
  \/ generateSummaryFile
  \/ Tick

Spec == Init /\ [][Next]_vars

-----------------------------------------------------------------------------
(* The runs of the program, with capture files deleted between them *)

\* between two runs a capture file is deleted from the directory
Remove ==
  /\ pc \in {"idle", "exited"}
  /\ \E n \in CaptureNames :
       /\ dir[n] # Absent
       /\ dir' = [dir EXCEPT ![n] = Absent]
  /\ UNCHANGED <<rev, pc, exitCode, args, clock, dir0, plists, ip, localFile,
                 aggregateLines, uniqueLineCount, stdout, events, loaded,
                 runs, fetched, gens, inst, copies>>

NextKeep ==
  \/ Next
  \/ Remove

SpecKeep == Init /\ [][NextKeep]_vars

-----------------------------------------------------------------------------
(* The aggregation and deduplication steps on a directory snapshot *)

\* a summary.txt left by an earlier run
OldSummary == Fprintln(EchoHelloWorld)

FixtureDirs ==
  { [EmptyDir EXCEPT !["a.txt"] = a, !["b.txt"] = b, ![SummaryName] = s] :
      a \in {Absent, FileA, FileCR},
      b \in {Absent, FileB, FileNoNL},
      s \in {Absent, OldSummary} }

InitDir ==
  /\ rev \in {"main", "part_000"}
  /\ pc = "walk"
  /\ exitCode = -1
  /\ args = NoArgs
  /\ clock = 0
  /\ dir \in FixtureDirs
  /\ dir0 = dir
  /\ plists = {}
  /\ ip = ""
  /\ localFile = ""
  /\ aggregateLines = <<>>
  /\ uniqueLineCount = 0
  /\ stdout = <<>>
  /\ events = <<>>
  /\ loaded = {}
  /\ runs = 1
  /\ fetched = {}
  /\ gens = <<>>
  /\ inst = [i \in Instances |-> Idle]
  /\ copies = <<>>

\* generateSummaryFile(localDir) is called once more on the directory as the
\* last call left it
Again ==
  /\ pc = "exited"
  /\ exitCode = 0
  /\ runs < MaxRuns
  /\ pc' = "summary"
  /\ exitCode' = -1
  /\ runs' = runs + 1
  /\ UNCHANGED <<rev, args, clock, dir, dir0, plists, ip, localFile,
                 aggregateLines, uniqueLineCount, stdout, events, loaded,
                 fetched, gens, inst, copies>>

NextDir ==
  \/ WalkDir
  \/ generateSummaryFile
  \/ Again

SpecDir == InitDir /\ [][NextDir]_vars

-----------------------------------------------------------------------------
(* Two instances of the program on the fetch path, started with no flags,  *)
(* with nothing between them but the directory and the wall clock           *)

\* the variables of the single run, which these instances leave alone
oneRun == <<pc, exitCode, args, dir0, plists, ip, localFile, aggregateLines,
            uniqueLineCount, stdout, events, loaded, runs>>

\* log.Fatalf, panic, os.Exit or the return of main, of instance i
ExitOf(i, code) == [inst[i] EXCEPT !.pc = "exited", !.exitCode = code]

At(i, where) == [inst[i] EXCEPT !.pc = where]

\* what is remembered of one scp that wrote a capture file
Capture(i, h) ==
  [who |-> i, started |-> inst[i].started, now |-> inst[i].now,
   path |-> inst[i].localFile, content |-> h]

\* main: flag.Parse() with no flags, and dowork is entered
StartInstance(i) ==
  /\ inst[i].pc = "idle"
  /\ inst' = [inst EXCEPT ![i] = [Idle EXCEPT !.pc = "getip",
                                               !.exitCode = -1,
                                               !.started = clock]]
  /\ UNCHANGED <<rev, clock, dir, fetched, gens, copies, oneRun>>

\* getip (terraform of part_000)
ResolveInstance(i) ==
  /\ inst[i].pc = "getip"
  /\ \E out \in TerraformOutputs :
       LET r == IF rev = "main" THEN getip(out) ELSE resolve000(NoArgs, out)
       IN inst' = [inst EXCEPT ![i] =
                     IF r.fatal THEN [ExitOf(i, 1) EXCEPT !.ip = r.ip]
                     ELSE [At(i, "stamp") EXCEPT !.ip = r.ip]]
  /\ UNCHANGED <<rev, clock, dir, fetched, gens, copies, oneRun>>

\* dowork: localFile from time.Now(), then os.MkdirAll
StampInstance(i) ==
  /\ inst[i].pc = "stamp"
  /\ \/ \* os.MkdirAll fails: log.Fatalf
        inst' = [inst EXCEPT ![i] =
                   [ExitOf(i, 1) EXCEPT !.now = clock,
                                        !.localFile = CaptureName(clock)]]
     \/ inst' = [inst EXCEPT ![i] =
                   [At(i, "scp") EXCEPT !.now = clock,
                                        !.localFile = CaptureName(clock)]]
  /\ UNCHANGED <<rev, clock, dir, fetched, gens, copies, oneRun>>

\* dowork: scp to the path of localFile
FetchInstance(i) ==
  /\ inst[i].pc = "scp"
  /\ \/ \* scp exits non-zero: log.Fatalf
        /\ inst' = [inst EXCEPT ![i] = ExitOf(i, 1)]
        /\ UNCHANGED <<dir, fetched, copies>>
     \/ /\ isValidIPv4(inst[i].ip)
        /\ \E h \in RemoteHistories :
             /\ dir' = [dir EXCEPT ![inst[i].localFile] = h]
             /\ fetched' = fetched \cup {h}
             /\ copies' = Append(copies, Capture(i, h))
        /\ inst' = [inst EXCEPT ![i] = At(i, "walk")]
  /\ UNCHANGED <<rev, clock, gens, oneRun>>

\* dowork: the walk; its lines and counts go to the log
WalkInstance(i) ==
  /\ inst[i].pc = "walk"
  /\ \/ inst' = [inst EXCEPT ![i] = ExitOf(i, 1)]
     \/ inst' = [inst EXCEPT ![i] = At(i, "summary")]
  /\ UNCHANGED <<rev, clock, dir, fetched, gens, copies, oneRun>>

\* generateSummaryFile of instance i
SummariseInstance(i) ==
  /\ inst[i].pc = "summary"
  /\ \/ \* getUniqueBashLines or os.Create fails: log.Fatalf
        /\ inst' = [inst EXCEPT ![i] = ExitOf(i, 1)]
        /\ UNCHANGED <<dir, gens>>
     \/ \* os.Create has truncated summary.txt, a later Fprintln fails
        \E uniqueLines \in Orders(getUniqueBashLines(dir)) :
          \E k \in 0..(Len(uniqueLines) - 1) :
            LET done == SubSeq(uniqueLines, 1, k) IN
            /\ dir' = [dir EXCEPT ![SummaryName] =
                         IF rev = "main" THEN WriteSummary(done)
                         ELSE WriteSummary000(done)]
            /\ inst' = [inst EXCEPT ![i] = ExitOf(i, 1)]
            /\ UNCHANGED gens
     \/ \E uniqueLines \in Orders(getUniqueBashLines(dir)) :
          LET text == IF rev = "main"
                      THEN WriteSummary(uniqueLines)
                      ELSE WriteSummary000(uniqueLines)
          IN /\ dir' = [dir EXCEPT ![SummaryName] = text]
             /\ gens' = Remember(gens, [captures |-> Captures(dir),
                                        summary |-> text])
             /\ inst' = [inst EXCEPT ![i] = ExitOf(i, 0)]
  /\ UNCHANGED <<rev, clock, fetched, copies, oneRun>>

\* a second passes, at any point of either run
Pass ==
  /\ clock < MaxClock
  /\ clock' = clock + 1
  /\ UNCHANGED <<rev, dir, fetched, gens, inst, copies, oneRun>>

NextPar ==
  \/ \E i \in Instances : StartInstance(i)
  \/ \E i \in Instances : ResolveInstance(i)
  \/ \E i \in Instances : StampInstance(i)
  \/ \E i \in Instances : FetchInstance(i)
  \/ \E i \in Instances : WalkInstance(i)
  \/ \E i \in Instances : SummariseInstance(i)
  \/ Pass

SpecPar == Init /\ [][NextPar]_vars

-----------------------------------------------------------------------------
(* Properties *)

EventSet == Range(events)

\* the run has finished without an error
Succeeded == pc = "exited" /\ exitCode = 0

\* the lines of a file as bufio.Scanner delivers them; none for no file
LinesOf(content) == IF content = Absent THEN <<>> ELSE readLines(content)

\* the lines of a file as they were written: split at LF only
RECURSIVE WrittenLines(_)
WrittenLines(content) ==
  IF content = Absent \/ Len(content) = 0 THEN <<>>
  ELSE LET i == IndexByte(content, LF) IN
       IF i > 0
       THEN <<SubSeq(content, 1, i - 1)>>
              \o WrittenLines(SubSeq(content, i + 1, Len(content)))
       ELSE <<content>>

\* C1: after a successful run of the main path (one that called
\* generateSummaryFile), every line written to summary.txt has at least 10
\* bytes.
C1_SummaryLinesAtLeastTen ==
  (Succeeded /\ "summary" \in EventSet)
    => \A line \in Range(WrittenLines(dir[SummaryName])) : Len(line) >= 10

\* C2: a run given -ip never invokes terraform, is not refused by the flag
\* parser, and once the IP is resolved it is the value of the flag.
C2_OverrideSkipsTerraform ==
  ("ip" \in args.given /\ runs > 0)
    => /\ "terraform" \notin EventSet
       /\ pc # "resolve" => (exitCode # 2 /\ ip = args.ip)

\* C3: when terraform was invoked and the address the run holds from it is
\* not a valid IPv4 address, the run has ended with a fatal error, scp was
\* not invoked and the directory is as the run found it.
C3_InvalidAddressIsFatal ==
  ("terraform" \in EventSet /\ ~isValidIPv4(ip))
    => /\ pc = "exited" /\ exitCode = 1
       /\ "scp" \notin EventSet
       /\ dir = dir0

\* C4: a run given -show-full and not -install invokes neither terraform nor
\* scp, leaves the directory as it found it, and when it succeeds it has
\* printed the deduplicated lines of the directory.
C4_ShowFullOnlyPrints ==
  ("show-full" \in args.given /\ "install" \notin args.given /\ runs > 0)
    => /\ EventSet \subseteq {"print"}
       /\ dir = dir0
       /\ Succeeded => (/\ "print" \in EventSet
                        /\ Range(stdout) = getUniqueBashLines(dir)
                        /\ Len(stdout) = Cardinality(Range(stdout)))

\* the number a sequence of decimal digits denotes
RECURSIVE DecimalValue(_)
DecimalValue(digits) ==
  IF digits = <<>> THEN 0
  ELSE LET last == digits[Len(digits)]
           d == CHOOSE k \in 0..9 : Digits[k + 1] = last
       IN 10 * DecimalValue(SubSeq(digits, 1, Len(digits) - 1)) + d

\* the descriptor an install with label L, delay D and IP A is to leave
DescriptorAsClaimed ==
  \E f \in plists :
    /\ f.path = LaunchAgentsDir \o <<"/">> \o Label(args)
                  \o <<".", ip, ".", "plist">>
    /\ Base(f.path) = Label(args) \o <<".", ip, ".", "plist">>
    /\ f.Label = Label(args) \o <<".", ip>>
    /\ DecimalValue(f.StartInterval) * 1000 <= Delay(args)
    /\ Delay(args) < (DecimalValue(f.StartInterval) + 1) * 1000
    /\ (Label(args) = ComTest /\ Delay(args) = 300000 /\ ip = "10.0.0.5")
         => /\ Base(f.path) = <<"com", ".", "test", ".", "10.0.0.5",
                                ".", "plist">>
            /\ f.StartInterval = <<"3", "0", "0">>

InstallWroteDescriptor == "install" \in args.given /\ "plist" \in EventSet

\* C5 as stated: every install that has written its descriptor has left a
\* file named L.A.plist whose Label is L.A and whose StartInterval is the
\* delay in whole seconds.
C5_DescriptorForAnyLabel == InstallWroteDescriptor => DescriptorAsClaimed

\* C5, amended: the same for every label that holds no path separator.
C5_DescriptorForPlainLabel ==
  (InstallWroteDescriptor /\ "/" \notin Range(Label(args)))
    => DescriptorAsClaimed

C5_Witness ==
  /\ InstallWroteDescriptor
  /\ Succeeded
  /\ Label(args) = ComTest
  /\ Delay(args) = 300000
  /\ ip = "10.0.0.5"

\* the directory that holds exactly a.txt and b.txt
FixtureAB == [EmptyDir EXCEPT !["a.txt"] = FileA, !["b.txt"] = FileB]

OnFixtureAB == rev = "main" /\ dir0 = FixtureAB

FixtureResult(total) ==
  /\ (pc = "summary" \/ Succeeded)
       => /\ Len(aggregateLines) = total
          /\ uniqueLineCount = 3
          /\ Range(aggregateLines) = {LsLa, CdTmp, EchoHelloWorld}
  /\ Succeeded => LinesOf(dir[SummaryName]) = <<EchoHelloWorld>>

\* C6 as stated: on the directory of a.txt and b.txt, src/main.go aggregates
\* 4 lines, counts 3 unique lines and writes the one line "echo hello world".
C6_FixtureAggregatesFour == OnFixtureAB => FixtureResult(4)

\* C6, amended: it aggregates 5 lines (3 of a.txt and 2 of b.txt), counts 3
\* unique lines and writes the one line "echo hello world".
C6_FixtureAggregatesFive == OnFixtureAB => FixtureResult(5)

C6_Witness == OnFixtureAB /\ Succeeded /\ Len(gens) = 1

\* C7: after the walk, the unique-line count is at most the number of
\* aggregated lines, and equal to it exactly when no line occurs twice.
C7_UniqueCountAtMostTotal ==
  /\ uniqueLineCount <= Len(aggregateLines)
  /\ uniqueLineCount = Len(aggregateLines)
       <=> \A i, j \in 1..Len(aggregateLines) :
             i # j => aggregateLines[i] # aggregateLines[j]

C7_Witness ==
  /\ pc = "summary"
  /\ Len(aggregateLines) >= 3
  /\ uniqueLineCount < Len(aggregateLines)
  /\ uniqueLineCount >= 2

\* C8: two calls of generateSummaryFile in a row, with the same files beside
\* summary.txt at both, leave summary files with the same set of lines.
C8_SecondCallSameLines ==
  (Len(gens) = 2 /\ gens[1].captures = gens[2].captures)
    => Range(LinesOf(gens[1].summary)) = Range(LinesOf(gens[2].summary))

\* the lines of every capture file that was ever fetched
FetchedLines == UNION {Range(readLines(h)) : h \in fetched}

\* C9: starting from the empty directory, the lines written to summary.txt
\* are lines read from capture files that were fetched, and no line is there
\* twice.
C9_SummarySubsetOfCaptured ==
  LET s == WrittenLines(dir[SummaryName]) IN
  /\ Range(s) \subseteq FetchedLines
  /\ Len(s) = Cardinality(Range(s))

\* a run that installs: -install without -show-full
InstallRun ==
  runs > 0 /\ "install" \in args.given /\ "show-full" \notin args.given

ListEvents == {"list_found", "list_missing", "list_failed"}
Where(es) == {i \in 1..Len(events) : events[i] \in es}

\* launchctl load is issued at most once, after the descriptor file was
\* written, and exactly once in an install that succeeds; launchctl list is
\* run only after it, at most twice
LoadOnceThenList ==
  /\ Cardinality(Where({"load"})) <= 1
  /\ \A i \in Where({"load"}) :
       /\ \E j \in 1..(i - 1) : events[j] = "plist"
       /\ \E f \in plists : f.path = plistPath(args, ip)
  /\ \A i \in Where(ListEvents) : \E j \in 1..(i - 1) : events[j] = "load"
  /\ Cardinality(Where(ListEvents)) <= 2
  /\ \A i, j \in Where(ListEvents) :
       i < j => (j = i + 2 /\ events[i + 1] = "sleep_500ms")
  /\ Succeeded => (Cardinality(Where({"load"})) = 1 /\ Where(ListEvents) # {})

\* C10 as stated: the second check of the task list is made only if the first
\* did not find the task.
C10_SecondCheckOnlyIfMissing ==
  InstallRun
    => /\ LoadOnceThenList
       /\ \A i, j \in Where(ListEvents) : i < j => events[i] = "list_missing"

\* C10, amended: the second check is made after the 500ms sleep whenever
\* the first launchctl list ran without error, whether or not it found the
\* task.
C10_SecondCheckAlways ==
  InstallRun
    => /\ LoadOnceThenList
       /\ (pc = "exited" /\ Where({"list_found", "list_missing"}) # {})
            => Cardinality(Where(ListEvents)) = 2
       /\ Succeeded
            => \E first, second \in {"list_found", "list_missing"} :
                 events = <<"terraform", "plist", "load", first,
                            "sleep_500ms", second>>

C10_Witness ==
  /\ InstallRun
  /\ Succeeded
  /\ events = <<"terraform", "plist", "load", "list_found", "sleep_500ms",
                "list_found">>

\* the directory as the aggregation walk of the current run saw it
DirAtWalk == [dir EXCEPT ![SummaryName] = dir0[SummaryName]]

\* summary.txt was rewritten by the current run
SummaryRewritten ==
  "summary" \in EventSet \/ dir[SummaryName] # dir0[SummaryName]

\* the IP was resolved, the capture file was fetched and the walk delivered
\* the lines of every file
AllStepsSucceeded ==
  /\ rev = "main" => (events[1] = "terraform" /\ isValidIPv4(ip))
  /\ "scp" \in EventSet
  /\ localFile \in CaptureNames
  /\ dir[localFile] \in RemoteHistories
  /\ aggregateLines = Aggregate(DirAtWalk)
  /\ uniqueLineCount = getUniqueLineCount(aggregateLines)

\* a step that ends the run from IP resolution, the fetch or the walk
StopsBeforeSummary ==
  /\ (pc \in {"getip", "resolve", "scp", "walk"} /\ pc' = "exited")
       => /\ exitCode' = 1
          /\ dir'[SummaryName] = dir[SummaryName]
          /\ dir'[SummaryName] = dir0[SummaryName]
          /\ aggregateLines' = <<>>
          /\ uniqueLineCount' = 0
          /\ "summary" \notin Range(events')
  /\ dir'[SummaryName] # dir[SummaryName] => pc = "summary"

\* C11: summary.txt is rewritten only in a run whose IP resolution, fetch and
\* aggregation walk all succeeded; a run that ends in one of these steps ends
\* with status 1, with no aggregate, no unique count and summary.txt as the
\* run found it.
C11_FailStop ==
  /\ [](SummaryRewritten => AllStepsSucceeded)
  /\ [][StopsBeforeSummary]_vars

\* a second run ended in the fetch or in the walk, beside an earlier summary
C11_Witness ==
  /\ rev = "main"
  /\ pc = "exited" /\ exitCode = 1
  /\ events = <<"terraform", "scp">>
  /\ dir0[SummaryName] # Absent
  /\ aggregateLines = <<>>

IsPrefix(s, t) == Len(s) <= Len(t) /\ s = SubSeq(t, 1, Len(s))

\* what an install does, in order: IP Resolver, then the descriptor, the
\* load and the two checks of the task list
InstallTraces ==
  { <<"terraform", "plist", "load", first, "sleep_500ms", second>> :
      first \in ListEvents, second \in ListEvents }

\* what a fetch does, in order: IP Resolver, Remote Fetcher, then (after the
\* walk of the Line Aggregator) the summary of the Deduplicator
FetchTrace == <<"terraform", "scp", "summary">>

\* a run in progress or finished of src/main.go that got past flag.Parse()
RunOfMain == rev = "main" /\ runs > 0 /\ ~ParseFails(rev, args)

\* the run has touched nothing of the fetch path
NothingFetched ==
  /\ dir = dir0
  /\ localFile = ""
  /\ aggregateLines = <<>>
  /\ pc \notin {"scp", "walk", "summary"}

\* the install path: IP first, then only the descriptor and its registration
InstallOnly ==
  /\ \E t \in InstallTraces : IsPrefix(events, t)
  /\ NothingFetched
  /\ pc \in {"plist", "load", "search", "sleep"} => isValidIPv4(ip)
  /\ Succeeded => Len(events) = 6

\* -install with -show-full: the deduplicated lines are printed, nothing else
PrintOnly ==
  /\ IsPrefix(events, <<"print">>)
  /\ NothingFetched
  /\ pc \notin {"getip", "plist", "load", "search", "sleep"}

\* the fetch path, in order, with no step of the install path
FetchOnly ==
  /\ IsPrefix(events, FetchTrace)
  /\ pc \notin {"showfull", "plist", "load", "search", "sleep"}
  /\ pc = "scp" => (events = <<"terraform">> /\ isValidIPv4(ip))
  /\ pc = "walk" => events = <<"terraform", "scp">>
  /\ pc = "summary" => /\ events = <<"terraform", "scp">>
                        /\ aggregateLines = Aggregate(dir)
  /\ Succeeded => events = FetchTrace

\* a step of a run without -install leaves the descriptors and the task
\* manager alone; a step of a run with -install leaves the directory alone
StepStaysInMode ==
  (rev = "main" /\ pc' # "idle")
    => IF "install" \in args'.given
       THEN dir' = dir /\ fetched' = fetched
       ELSE plists' = plists /\ loaded' = loaded

CopiesOf(i) == {k \in 1..Len(copies) : copies[k].who = i}

\* the positions in copies of the writes to the path n
CopiesAt(n) == {k \in 1..Len(copies) : copies[k].path = n}

Last(ks) == CHOOSE k \in ks : \A j \in ks : j <= k

\* a run writes at most one capture file, and exactly one once its scp has
\* succeeded; the file is where the timestamp of its time.Now() puts it
OneCapturePerRun ==
  \A i \in Instances :
    /\ Cardinality(CopiesOf(i)) <= 1
    /\ (\/ inst[i].pc \in {"walk", "summary"}
        \/ inst[i].pc = "exited" /\ inst[i].exitCode = 0)
         => Cardinality(CopiesOf(i)) = 1
    /\ \A k \in CopiesOf(i) :
         /\ copies[k].path = CaptureName(copies[k].now)
         /\ copies[k].path = inst[i].localFile
         /\ copies[k].started <= copies[k].now

\* every capture file holds what the last scp to its path wrote
LastWriterWins ==
  \A n \in CaptureNames :
    dir[n] = IF CopiesAt(n) = {} THEN Absent
             ELSE copies[Last(CopiesAt(n))].content

\* a step changes a capture file only as the scp of a run to its own path
OnlyOwnCaptureWritten ==
  \A n \in CaptureNames :
    dir'[n] # dir[n]
      => \E i \in Instances : /\ inst[i].pc = "scp"
                               /\ inst'[i].pc = "walk"
                               /\ n = inst[i].localFile

FetchSucceeded ==
  /\ RunOfMain
  /\ "install" \notin args.given
  /\ Succeeded

\* C14: every line of summary.txt as a successful fetch run of src/main.go
\* found it is a line of summary.txt as the run left it, whether or not the
\* capture file the line came from is still in the directory.
C14_SummaryOnlyGrows ==
  FetchSucceeded
    => Range(WrittenLines(dir0[SummaryName]))
         \subseteq Range(WrittenLines(dir[SummaryName]))

====
